---------------------------- MODULE Spec2Model ----------------------------
(***************************************************************************)
(* Credit card validator: the Luhn checksum (luhnAlgorithm) and the HTTP   *)
(* handler around it (creditCardValidator).                                *)
(*                                                                         *)
(* A Go string is a sequence of bytes; it is modelled as a sequence of     *)
(* byte codes 0..255 ('0' is 48).  Go indexes from 0, TLA+ from 1, so the  *)
(* byte cardNumber[i] of the code is cardNumber[i + 1] here.               *)
(***************************************************************************)
EXTENDS Integers, Sequences, FiniteSets, TLC

VARIABLES
    \* ---- one run of luhnAlgorithm, statement by statement ----
    cardNumber,     \* the argument
    i,              \* loop index (Go's, 0-based)
    total,          \* running sum
    isSecondDigit,  \* doubling flag
    digit,          \* the value added by the last iteration
    lpc,            \* "loop" | "done"
    result,         \* the returned boolean (meaningful when lpc = "done")
    \* ---- the HTTP server: one slot per request being handled ----
    request,        \* r -> [method, body]
    hpc,            \* r -> "idle" | "start" | "decode" | "validate" | "respond" | "done"
    payload,        \* r -> the handler's local cardNumber.Number
    isValid,        \* r -> the handler's local isValid
    writer,         \* r -> the http.ResponseWriter: [status, contentType, body]
    invoked         \* r -> the calls the handler has made, in order

luhnVars == <<cardNumber, i, total, isSecondDigit, digit, lpc, result>>
httpVars == <<request, hpc, payload, isValid, writer, invoked>>
vars == <<luhnVars, httpVars>>

-----------------------------------------------------------------------------
(* Bounds of the model. *)

\* Longest enumerated card number (the 16-digit test vectors are added).
MaxLen == 3

\* Number of requests handled concurrently.
NumRequests == 2

-----------------------------------------------------------------------------
(* Bytes and strings. *)

\* The byte '0'.
Zero == 48

\* Number of values of a Go byte (uint8).
ByteRange == 256

DigitBytes == Zero .. (Zero + 9)

\* Bytes that are not digits: NUL, '-', '/', ':', 'A'.
NonDigitBytes == {0, 45, 47, 58, 65}

\* The string whose characters are the decimal digits ds.
Ascii(ds) == [k \in 1 .. Len(ds) |-> Zero + ds[k]]

AllDigits(s) == \A k \in 1 .. Len(s) : s[k] \in DigitBytes

StringsOver(alphabet, n) == UNION {[1 .. m -> alphabet] : m \in 0 .. n}

\* The documented example and its neighbour with the last digit incremented.
Vector14 == Ascii(<<4, 0, 0, 3, 6, 0, 0, 0, 0, 0, 0, 0, 0, 0, 1, 4>>)
Vector15 == Ascii(<<4, 0, 0, 3, 6, 0, 0, 0, 0, 0, 0, 0, 0, 0, 1, 5>>)
Zeros16 == Ascii(<<0, 0, 0, 0, 0, 0, 0, 0, 0, 0, 0, 0, 0, 0, 0, 0>>)

-----------------------------------------------------------------------------
(* luhnAlgorithm *)

\* cardNumber[i] - '0' on bytes: uint8 subtraction wraps around.
ByteSub(a, b) == (a - b + ByteRange) % ByteRange

\* A plausible slip: the subtraction done on signed integers.
DigitValueSigned(c) == c - Zero

\* A plausible slip: the character code used as the digit.
DigitValueRaw(c) == c

\* digit := int(cardNumber[i] - '0')
DigitValue(c) == ByteSub(c, Zero)

\* A plausible slip: the doubled digit is not reduced.
DoubleDigitNoReduce(d) == d * 2

\* digit *= 2; if digit > 9 { digit -= 9 }
DoubleDigit(d) == IF d * 2 > 9 THEN d * 2 - 9 ELSE d * 2

\* The state of the loop before its first iteration.
LoopInit(s) ==
    [i |-> Len(s) - 1, total |-> 0, isSecondDigit |-> FALSE, digit |-> 0]

\* One iteration of the loop body, from loop state st.
LoopBody(s, st) ==
    LET raw == DigitValue(s[st.i + 1])
        d == IF st.isSecondDigit THEN DoubleDigit(raw) ELSE raw
    IN  [i |-> st.i - 1,
         total |-> st.total + d,
         isSecondDigit |-> ~st.isSecondDigit,
         digit |-> d]

RECURSIVE LoopRun(_, _)
\* The loop: for i := len(cardNumber) - 1; i >= 0; i--
LoopRun(s, st) == IF st.i >= 0 THEN LoopRun(s, LoopBody(s, st)) ELSE st

\* return total%10 == 0
IsDivisibleBy10(t) == t % 10 = 0

luhnAlgorithm(s) == IsDivisibleBy10(LoopRun(s, LoopInit(s)).total)

-----------------------------------------------------------------------------
(* JSON documents, and what json.NewDecoder(request.Body).Decode does with *)
(* one when its target is struct { Number string `json:"number"` }.        *)

JNull == [type |-> "null", str |-> <<>>, members |-> <<>>]
JString(s) == [type |-> "string", str |-> s, members |-> <<>>]
JNumber == [type |-> "number", str |-> <<>>, members |-> <<>>]
JArray == [type |-> "array", str |-> <<>>, members |-> <<>>]
\* An object; ms is its members in document order, each [key, value].
JObject(ms) == [type |-> "object", str |-> <<>>, members |-> ms]
\* A member; its key is a string (a sequence of byte codes).
Member(k, v) == [key |-> k, value |-> v]

\* The member keys of the sample documents.
KeyNumber == <<110, 117, 109, 98, 101, 114>>    \* number
KeyNUmber == <<110, 85, 109, 98, 101, 114>>     \* nUmber
KeyNumbeR == <<110, 117, 109, 98, 101, 82>>     \* numbeR
KeyOther == <<111, 116, 104, 101, 114>>         \* other

(***************************************************************************)
(* A request body is a byte stream, of which the decoder takes the first   *)
(* JSON value only.                                                        *)
(*   first: "value"   a complete JSON value starts the stream;             *)
(*          "eof"     the stream ends before any value starts;             *)
(*          "invalid" the first value is not JSON (a syntax error in it,   *)
(*                    or the stream ends inside it);                       *)
(*          "readerr" a Read fails before the first value is complete.     *)
(*   value: the first value, when first = "value".                         *)
(*   rest:  what follows the first value: "eof" (nothing but white space), *)
(*          "data" (more bytes, e.g. a stray ']'), "readerr" (the next     *)
(*          Read fails, e.g. fewer bytes sent than Content-Length).        *)
(***************************************************************************)
Body(f, v, rest) == [first |-> f, value |-> v, rest |-> rest]
BodyUnreadable == Body("readerr", JNull, "eof")
BodyEmpty == Body("eof", JNull, "eof")
BodyNotJSON == Body("invalid", JNull, "eof")
BodyOf(v) == Body("value", v, "eof")
NumberBody(s) == BodyOf(JObject(<<Member(KeyNumber, JString(s))>>))

\* The name of the field, from its tag `json:"number"`.
NumberTag == <<110, 117, 109, 98, 101, 114>>

\* Case folding of a key: ASCII letters 'A'..'Z' to lower case.
FoldKey(k) ==
    [j \in 1 .. Len(k) |-> IF k[j] \in 65 .. 90 THEN k[j] + 32 ELSE k[j]]

\* Whether key k selects the field: it equals the name, or does so when
\* letter case is ignored.
SelectsNumber(k) == k = NumberTag \/ FoldKey(k) = FoldKey(NumberTag)

RECURSIVE DecodeMembers(_, _, _)
\* The object's members from the k-th on, applied to the struct in order:
\* a later member overwrites an earlier one, a null leaves the field as it
\* is, a value that is no string is a type error (the first is kept).
DecodeMembers(ms, k, acc) ==
    IF k > Len(ms) THEN acc
    ELSE LET m == ms[k]
             next ==
                 IF ~SelectsNumber(m.key) THEN acc
                 ELSE IF m.value.type = "string"
                      THEN [acc EXCEPT !.Number = m.value.str]
                 ELSE IF m.value.type = "null" THEN acc
                 ELSE [acc EXCEPT
                          !.err = IF @ = "" THEN "UnmarshalTypeError" ELSE @]
         IN  DecodeMembers(ms, k + 1, next)

\* Whether the decoder takes a value of this type as ended at its own last
\* byte: it does so at the closing brace of an object and the closing
\* bracket of an array only.  After a string, a number or a literal it
\* goes on to the next byte, or to the end of the stream, reading more of
\* the body when its buffer is used up.
SelfDelimited(v) == v.type \in {"object", "array"}

\* A plausible slip: a document without the field is refused.
DecodeRequireNumber(body) ==
    IF body.first = "readerr" THEN [err |-> "read error", Number |-> <<>>]
    ELSE IF body.first = "eof" THEN [err |-> "EOF", Number |-> <<>>]
    ELSE IF body.first = "invalid" THEN [err |-> "SyntaxError", Number |-> <<>>]
    ELSE IF ~SelfDelimited(body.value) /\ body.rest = "readerr"
         THEN [err |-> "read error", Number |-> <<>>]
    ELSE IF body.value.type = "object"
              /\ \E k \in 1 .. Len(body.value.members) :
                    SelectsNumber(body.value.members[k].key)
         THEN DecodeMembers(body.value.members, 1,
                            [err |-> "", Number |-> <<>>])
    ELSE [err |-> "missing field", Number |-> <<>>]

\* err := json.NewDecoder(request.Body).Decode(&cardNumber), from the zero
\* value of cardNumber: the error ("" for nil) and cardNumber.Number.
\* The decoder reads up to the end of the first value and stops: what
\* follows a complete value is neither scanned nor read.
Decode(body) ==
    IF body.first = "readerr" THEN [err |-> "read error", Number |-> <<>>]
    ELSE IF body.first = "eof" THEN [err |-> "EOF", Number |-> <<>>]
    ELSE IF body.first = "invalid" THEN [err |-> "SyntaxError", Number |-> <<>>]
    ELSE IF ~SelfDelimited(body.value) /\ body.rest = "readerr"
         THEN [err |-> "read error", Number |-> <<>>]
    ELSE IF body.value.type = "null" THEN [err |-> "", Number |-> <<>>]
    ELSE IF body.value.type = "object"
         THEN DecodeMembers(body.value.members, 1,
                            [err |-> "", Number |-> <<>>])
    ELSE [err |-> "UnmarshalTypeError", Number |-> <<>>]

\* json.Marshal(Response{Valid: isValid}): the error and the bytes.
Marshal(response) ==
    [err |-> FALSE,
     json |-> IF response.Valid THEN "{\"valid\":true}"
              ELSE "{\"valid\":false}"]

-----------------------------------------------------------------------------
(* The http.ResponseWriter of one request. *)

StatusOK == 200
StatusBadRequest == 400
StatusMethodNotAllowed == 405
StatusInternalServerError == 500

\* Nothing written yet: status 0 stands for "header not written".
NewWriter == [status |-> 0, contentType |-> "", body |-> ""]

\* http.Error(writer, msg, code): a plain-text response, the message
\* written as a line.
httpError(w, msg, code) ==
    [status |-> IF w.status = 0 THEN code ELSE w.status,
     contentType |-> "text/plain; charset=utf-8",
     body |-> w.body \o msg \o "\n"]

\* writer.Header().Set("Content-Type", v)
SetContentType(w, v) == [w EXCEPT !.contentType = v]

\* writer.Write(bytes): the first write sends status 200 when none was set.
Write(w, bytes) ==
    [w EXCEPT !.status = IF @ = 0 THEN StatusOK ELSE @,
              !.body = @ \o bytes]

\* The handler run from start to end on one request, alone.
creditCardValidator(w, req) ==
    IF req.method # "POST"
    THEN httpError(w, "Invalid request method", StatusMethodNotAllowed)
    ELSE LET d == Decode(req.body)
         IN  IF d.err # ""
             THEN httpError(w, "Invalid JSON payload", StatusBadRequest)
             ELSE LET m == Marshal([Valid |-> luhnAlgorithm(d.Number)])
                  IN  IF m.err
                      THEN httpError(w, "Error creating response",
                                     StatusInternalServerError)
                      ELSE Write(SetContentType(w, "application/json"),
                                 m.json)

-----------------------------------------------------------------------------
(* The server: every request is handled by its own invocation of           *)
(* creditCardValidator, and the invocations interleave statement by         *)
(* statement.  Each invocation has its own locals.                          *)

Requests == 1 .. NumRequests

Methods == {"POST", "GET"}

\* The bodies a client sends.
SampleBodies ==
    {BodyUnreadable, BodyEmpty, BodyNotJSON,
     BodyOf(JNull), BodyOf(JArray), BodyOf(JObject(<<>>)),
     BodyOf(JObject(<<Member(KeyOther, JString(Vector15))>>)),
     BodyOf(JObject(<<Member(KeyNumber, JString(<<52, 45, 50>>)),
                      Member(KeyNumbeR, JNumber)>>)),
     BodyOf(JObject(<<Member(KeyNumber, JNull)>>)),
     BodyOf(JObject(<<Member(KeyNUmber, JString(Vector15))>>)),
     NumberBody(Vector14), NumberBody(Vector15),
     NumberBody(<<52, 45, 50>>),
     Body("value", JObject(<<Member(KeyNumber, JString(Vector14))>>), "data"),
     Body("value", JObject(<<Member(KeyNumber, JString(Vector14))>>),
          "readerr")}

\* The server accepts a request and starts a handler for it.
Receive(r) ==
    /\ hpc[r] = "idle"
    /\ \E m \in Methods, b \in SampleBodies :
          request' = [request EXCEPT ![r] = [method |-> m, body |-> b]]
    /\ writer' = [writer EXCEPT ![r] = NewWriter]
    /\ hpc' = [hpc EXCEPT ![r] = "start"]
    /\ UNCHANGED <<payload, isValid, invoked>>
    /\ UNCHANGED luhnVars

\* A plausible slip: the return after the 405 is missing.
MethodCheckNoReturn(r) ==
    /\ hpc[r] = "start"
    /\ writer' = [writer EXCEPT ![r] =
          IF request[r].method # "POST"
          THEN httpError(@, "Invalid request method", StatusMethodNotAllowed)
          ELSE @]
    /\ hpc' = [hpc EXCEPT ![r] = "decode"]
    /\ UNCHANGED <<request, payload, isValid, invoked>>
    /\ UNCHANGED luhnVars

\* if request.Method != http.MethodPost { http.Error(...); return }
MethodCheck(r) ==
    /\ hpc[r] = "start"
    /\ IF request[r].method # "POST"
       THEN /\ writer' = [writer EXCEPT ![r] =
                 httpError(@, "Invalid request method",
                           StatusMethodNotAllowed)]
            /\ hpc' = [hpc EXCEPT ![r] = "done"]
       ELSE /\ hpc' = [hpc EXCEPT ![r] = "decode"]
            /\ UNCHANGED writer
    /\ UNCHANGED <<request, payload, isValid, invoked>>
    /\ UNCHANGED luhnVars

\* A plausible slip: cardNumber is a package-level variable, so every
\* invocation decodes into the same struct.
DecodeBodyShared(r) ==
    /\ hpc[r] = "decode"
    /\ invoked' = [invoked EXCEPT ![r] = Append(@, "Decode")]
    /\ LET d == Decode(request[r].body)
       IN  IF d.err # ""
           THEN /\ writer' = [writer EXCEPT ![r] =
                     httpError(@, "Invalid JSON payload", StatusBadRequest)]
                /\ hpc' = [hpc EXCEPT ![r] = "done"]
                /\ payload' = [q \in Requests |-> d.Number]
           ELSE /\ payload' = [q \in Requests |-> d.Number]
                /\ hpc' = [hpc EXCEPT ![r] = "validate"]
                /\ UNCHANGED writer
    /\ UNCHANGED <<request, isValid>>
    /\ UNCHANGED luhnVars

\* var cardNumber struct{...}; err := json.NewDecoder(request.Body).Decode(
\* &cardNumber); if err != nil { http.Error(...); return }
\* Decode writes into cardNumber through the pointer, also when it returns
\* an error: what it stored before the error stays in cardNumber.Number.
DecodeBody(r) ==
    /\ hpc[r] = "decode"
    /\ invoked' = [invoked EXCEPT ![r] = Append(@, "Decode")]
    /\ LET d == Decode(request[r].body)
       IN  IF d.err # ""
           THEN /\ writer' = [writer EXCEPT ![r] =
                     httpError(@, "Invalid JSON payload", StatusBadRequest)]
                /\ hpc' = [hpc EXCEPT ![r] = "done"]
                /\ payload' = [payload EXCEPT ![r] = d.Number]
           ELSE /\ payload' = [payload EXCEPT ![r] = d.Number]
                /\ hpc' = [hpc EXCEPT ![r] = "validate"]
                /\ UNCHANGED writer
    /\ UNCHANGED <<request, isValid>>
    /\ UNCHANGED luhnVars

\* A plausible change: a number with a non-digit character is refused.
ValidateRejectNonDigits(r) ==
    /\ hpc[r] = "validate"
    /\ IF AllDigits(payload[r])
       THEN /\ invoked' = [invoked EXCEPT ![r] = Append(@, "luhnAlgorithm")]
            /\ isValid' = [isValid EXCEPT ![r] = luhnAlgorithm(payload[r])]
            /\ hpc' = [hpc EXCEPT ![r] = "respond"]
            /\ UNCHANGED writer
       ELSE /\ writer' = [writer EXCEPT ![r] =
                 httpError(@, "Invalid JSON payload", StatusBadRequest)]
            /\ hpc' = [hpc EXCEPT ![r] = "done"]
            /\ UNCHANGED <<invoked, isValid>>
    /\ UNCHANGED <<request, payload>>
    /\ UNCHANGED luhnVars

\* isValid := luhnAlgorithm(cardNumber.Number)
Validate(r) ==
    /\ hpc[r] = "validate"
    /\ invoked' = [invoked EXCEPT ![r] = Append(@, "luhnAlgorithm")]
    /\ isValid' = [isValid EXCEPT ![r] = luhnAlgorithm(payload[r])]
    /\ hpc' = [hpc EXCEPT ![r] = "respond"]
    /\ UNCHANGED <<request, payload, writer>>
    /\ UNCHANGED luhnVars

\* A plausible slip: a failed checksum is answered as a bad request.
RespondErrorWhenInvalid(r) ==
    /\ hpc[r] = "respond"
    /\ invoked' = [invoked EXCEPT ![r] = Append(@, "Marshal")]
    /\ writer' = [writer EXCEPT ![r] =
          IF isValid[r]
          THEN Write(SetContentType(@, "application/json"),
                     Marshal([Valid |-> TRUE]).json)
          ELSE httpError(@, "Invalid card number", StatusBadRequest)]
    /\ hpc' = [hpc EXCEPT ![r] = "done"]
    /\ UNCHANGED <<request, payload, isValid>>
    /\ UNCHANGED luhnVars

\* response := Response{Valid: isValid}; jsonResponse, err :=
\* json.Marshal(response); if err != nil { http.Error(...); return };
\* writer.Header().Set("Content-Type", ...); writer.Write(jsonResponse)
Respond(r) ==
    /\ hpc[r] = "respond"
    /\ invoked' = [invoked EXCEPT ![r] = Append(@, "Marshal")]
    /\ LET m == Marshal([Valid |-> isValid[r]])
       IN  writer' = [writer EXCEPT ![r] =
              IF m.err
              THEN httpError(@, "Error creating response",
                             StatusInternalServerError)
              ELSE Write(SetContentType(@, "application/json"), m.json)]
    /\ hpc' = [hpc EXCEPT ![r] = "done"]
    /\ UNCHANGED <<request, payload, isValid>>
    /\ UNCHANGED luhnVars

IdleLuhn ==
    /\ cardNumber = <<>>
    /\ i = -1
    /\ total = 0
    /\ isSecondDigit = FALSE
    /\ digit = 0
    /\ lpc = "idle"
    /\ result = FALSE

LuhnInputs ==
    StringsOver(DigitBytes \cup NonDigitBytes, MaxLen)
        \cup {Vector14, Vector15, Zeros16}

IdleHttp ==
    /\ request = [r \in Requests |-> [method |-> "", body |-> BodyEmpty]]
    /\ hpc = [r \in Requests |-> "idle"]
    /\ payload = [r \in Requests |-> <<>>]
    /\ isValid = [r \in Requests |-> FALSE]
    /\ writer = [r \in Requests |-> NewWriter]
    /\ invoked = [r \in Requests |-> <<>>]

LuhnCall ==
    /\ cardNumber \in LuhnInputs
    /\ i = LoopInit(cardNumber).i
    /\ total = LoopInit(cardNumber).total
    /\ isSecondDigit = LoopInit(cardNumber).isSecondDigit
    /\ digit = LoopInit(cardNumber).digit
    /\ lpc = "loop"
    /\ result = FALSE

LuhnIterate ==
    /\ lpc = "loop"
    /\ i >= 0
    /\ LET st == LoopBody(cardNumber,
                     [i |-> i, total |-> total,
                      isSecondDigit |-> isSecondDigit, digit |-> digit])
       IN  /\ i' = st.i
           /\ total' = st.total
           /\ isSecondDigit' = st.isSecondDigit
           /\ digit' = st.digit
    /\ UNCHANGED <<cardNumber, lpc, result>>
    /\ UNCHANGED httpVars

LuhnReturn ==
    /\ lpc = "loop"
    /\ i < 0
    /\ result' = IsDivisibleBy10(total)
    /\ lpc' = "done"
    /\ UNCHANGED <<cardNumber, i, total, isSecondDigit, digit>>
    /\ UNCHANGED httpVars

InitLuhn == LuhnCall /\ IdleHttp

NextLuhn == LuhnIterate \/ LuhnReturn

SpecLuhn == InitLuhn /\ [][NextLuhn]_vars

-----------------------------------------------------------------------------
(* Spec: the server handling NumRequests requests concurrently. *)

Init == IdleHttp /\ IdleLuhn

Next ==
    \E r \in Requests :
        \/ Receive(r)
        \/ MethodCheck(r)
        \/ DecodeBody(r)
        \/ Validate(r)
        \/ Respond(r)

Spec == Init /\ [][Next]_vars

-----------------------------------------------------------------------------
(* Properties of luhnAlgorithm, checked under SpecLuhn. *)

\* The Luhn term of position p, counted from the rightmost character as
\* position 1, of the all-digit string s.
LuhnTerm(s, p) ==
    LET d == s[Len(s) - p + 1] - Zero
    IN  IF p % 2 = 0
        THEN (IF 2 * d > 9 THEN 2 * d - 9 ELSE 2 * d)
        ELSE d

RECURSIVE LuhnSum(_, _)
\* The sum of the Luhn terms of positions 1 .. n.
LuhnSum(s, n) == IF n = 0 THEN 0 ELSE LuhnSum(s, n - 1) + LuhnTerm(s, n)

\* C1: on a string of digits luhnAlgorithm returns true exactly when the
\* Luhn total (digit at odd positions from the right, doubled digit reduced
\* by 9 when above 9 at even positions) is divisible by 10.
C1_LuhnIffTotalDivisible ==
    (lpc = "done" /\ AllDigits(cardNumber)) =>
        /\ total = LuhnSum(cardNumber, Len(cardNumber))
        /\ result = (LuhnSum(cardNumber, Len(cardNumber)) % 10 = 0)
        /\ luhnAlgorithm(cardNumber) = result

\* A valid digit string whose second digit from the right is doubled
\* past 9.
C1_Witness ==
    /\ lpc = "done"
    /\ AllDigits(cardNumber)
    /\ Len(cardNumber) >= 2
    /\ cardNumber[Len(cardNumber) - 1] >= Zero + 5
    /\ result

\* C5: changing one digit of a valid digit string to a different digit
\* makes luhnAlgorithm return false.
C5_SingleDigitChangeInvalidates ==
    (lpc = "done" /\ AllDigits(cardNumber) /\ result) =>
        \A p \in 1 .. Len(cardNumber) :
            \A c \in DigitBytes \ {cardNumber[p]} :
                ~luhnAlgorithm([cardNumber EXCEPT ![p] = c])

\* The documented example is valid, and its last digit incremented is not.
C5_Witness ==
    /\ lpc = "done"
    /\ cardNumber = Vector14
    /\ result
    /\ [cardNumber EXCEPT ![16] = Zero + 5] = Vector15
    /\ ~luhnAlgorithm(Vector15)

\* C6: luhnAlgorithm returns true on a string of n '0' characters, for
\* every n >= 0 (the empty string included): the total stays 0.
C6_AllZeroValid ==
    (\A k \in 1 .. Len(cardNumber) : cardNumber[k] = Zero) =>
        /\ total = 0
        /\ lpc = "done" => result
        /\ luhnAlgorithm(cardNumber)

\* The call on sixteen zeros has returned true.
C6_Witness ==
    /\ lpc = "done"
    /\ cardNumber = Zeros16
    /\ result

\* C9: the value of a character is (code - 48) mod 256, in 0..255; a code
\* below '0' gives a value in 208..255; every contribution and the running
\* total are non-negative at every step of the loop.
C9_UnsignedByteArithmetic ==
    /\ \A k \in 1 .. Len(cardNumber) :
          LET c == cardNumber[k]
          IN  /\ DigitValue(c) \in 0 .. 255
              /\ DigitValue(c) = IF c >= 48 THEN c - 48 ELSE c + 208
              /\ c < 48 => DigitValue(c) \in 208 .. 255
    /\ digit >= 0
    /\ total >= 0
    /\ (lpc \in {"loop", "done"} /\ i < Len(cardNumber) - 1) =>
          LET c == cardNumber[i + 2]
              v == IF c >= 48 THEN c - 48 ELSE c + 208
          IN  digit = IF isSecondDigit THEN v
                      ELSE IF 2 * v > 9 THEN 2 * v - 9 ELSE 2 * v

\* The loop has just added the wrapped value of a byte below '0'.
C9_Witness ==
    /\ lpc = "loop"
    /\ i < Len(cardNumber) - 1
    /\ cardNumber[i + 2] < Zero
    /\ digit >= 208
    /\ total >= 208

-----------------------------------------------------------------------------
(* Properties of creditCardValidator, checked under Spec. *)

\* Whether key k is the word "number" in any letter case.
IsNumberKey(k) ==
    /\ Len(k) = Len(NumberTag)
    /\ \A j \in 1 .. Len(k) : k[j] \in {NumberTag[j], NumberTag[j] - 32}

\* Whether an object holds, under the number key, something that is
\* neither a string nor null.
WrongNumberType(v) ==
    /\ v.type = "object"
    /\ \E k \in 1 .. Len(v.members) :
          /\ IsNumberKey(v.members[k].key)
          /\ v.members[k].value.type \notin {"string", "null"}

\* The bodies whose first JSON value decodes into the struct: an object
\* without a wrongly typed number, or a null whose end can be read.
DecodesSuccessfully(b) ==
    /\ b.first = "value"
    /\ \/ b.value.type = "object" /\ ~WrongNumberType(b.value)
       \/ b.value.type = "null" /\ b.rest # "readerr"

\* The bodies that fail to parse as a JSON payload for the struct: the body
\* cannot be read to its end, it is empty, it is not one JSON document
\* (bytes follow the first value included), or the document has the wrong
\* type for the struct or for its number field.
FailsToParse(b) ==
    \/ b.first \in {"readerr", "eof", "invalid"}
    \/ b.rest \in {"data", "readerr"}
    \/ b.value.type \notin {"object", "null"}
    \/ WrongNumberType(b.value)

\* The JSON response for a validation result, read back from the body.
ValidField(body) ==
    CASE body = "{\"valid\":true}" -> "true"
      [] body = "{\"valid\":false}" -> "false"
      [] OTHER -> "none"

BoolText(b) == IF b THEN "true" ELSE "false"

\* C2: a POST whose body decodes is answered 200, Content-Type
\* application/json, with valid = luhnAlgorithm(number); a failing checksum
\* is a 200 with valid = false.
C2_SuccessResponse ==
    \A r \in Requests :
        (hpc[r] = "done" /\ request[r].method = "POST"
            /\ DecodesSuccessfully(request[r].body)) =>
            /\ writer[r].status = 200
            /\ writer[r].contentType = "application/json"
            /\ ValidField(writer[r].body) = BoolText(luhnAlgorithm(payload[r]))
            /\ LET v == request[r].body.value
               IN  (v.type = "object" /\ Len(v.members) = 1
                       /\ IsNumberKey(v.members[1].key)
                       /\ v.members[1].value.type = "string") =>
                       payload[r] = v.members[1].value.str
            /\ request[r].body = NumberBody(Vector14) =>
                  writer[r].body = "{\"valid\":true}"
            /\ request[r].body = NumberBody(Vector15) =>
                  writer[r].body = "{\"valid\":false}"

\* The number with the last digit incremented was answered 200, false.
C2_Witness ==
    \E r \in Requests :
        /\ hpc[r] = "done"
        /\ request[r] = [method |-> "POST", body |-> NumberBody(Vector15)]
        /\ writer[r].status = 200
        /\ ValidField(writer[r].body) = "false"

\* C3: a request whose method is not POST is answered 405 "Invalid request
\* method" whatever its body, and neither the decoder nor luhnAlgorithm is
\* invoked for it.  (http.Error writes the message as a line of plain text:
\* the body is the message followed by a newline.)
C3_MethodNotAllowed ==
    \A r \in Requests :
        (hpc[r] # "idle" /\ request[r].method # "POST") =>
            /\ hpc[r] \in {"start", "done"}
            /\ invoked[r] = <<>>
            /\ hpc[r] = "done" =>
                  /\ writer[r].status = 405
                  /\ writer[r].body = "Invalid request method\n"
                  /\ writer[r].contentType = "text/plain; charset=utf-8"

\* A GET carrying a valid card number was answered 405.
C3_Witness ==
    \E r \in Requests :
        /\ hpc[r] = "done"
        /\ request[r] = [method |-> "GET", body |-> NumberBody(Vector14)]
        /\ writer[r].status = 405

\* C4: a POST whose body fails to parse (malformed JSON, wrong type for
\* the number field, unreadable or empty body) is answered 400 "Invalid
\* JSON payload" (written as a line, like every http.Error message) and the
\* handler ends there: luhnAlgorithm is not invoked and no valid result is
\* written.
C4_BadRequest ==
    \A r \in Requests :
        (hpc[r] \notin {"idle", "start", "decode"}
            /\ request[r].method = "POST"
            /\ FailsToParse(request[r].body)) =>
            /\ hpc[r] = "done"
            /\ invoked[r] = <<"Decode">>
            /\ writer[r].status = 400
            /\ writer[r].body = "Invalid JSON payload\n"
            /\ writer[r].contentType = "text/plain; charset=utf-8"
            /\ ValidField(writer[r].body) = "none"

\* C7: a POST whose body decodes to a number holding a non-digit character
\* is not an error: luhnAlgorithm returns a boolean computed from the
\* unchecked character values and the answer is 200 with a valid result,
\* never 400.
C7_NonDigitsNotAnError ==
    \A r \in Requests :
        (request[r].method = "POST"
            /\ DecodesSuccessfully(request[r].body)
            /\ ~AllDigits(payload[r])) =>
            /\ hpc[r] \in {"validate", "respond", "done"}
            /\ hpc[r] \in {"respond", "done"} =>
                  /\ isValid[r] \in BOOLEAN
                  /\ isValid[r] = luhnAlgorithm(payload[r])
            /\ hpc[r] = "done" =>
                  /\ writer[r].status = 200
                  /\ ValidField(writer[r].body) = BoolText(isValid[r])

\* The number "4-2" was answered 200, and ":" was found valid.
C7_Witness ==
    \E r \in Requests :
        /\ hpc[r] = "done"
        /\ request[r].method = "POST"
        /\ payload[r] = <<52, 45, 50>>
        /\ writer[r].status = 200
        /\ ValidField(writer[r].body) = "false"
        /\ luhnAlgorithm(<<58>>)

\* C8: the response is a function of the request's method and body alone:
\* under every interleaving a request gets the response it gets when
\* handled alone, and identical requests get identical responses.
C8_ResponseDependsOnRequestOnly ==
    /\ \A r \in Requests :
          hpc[r] = "done" =>
              writer[r] = creditCardValidator(NewWriter, request[r])
    /\ \A r, q \in Requests :
          (hpc[r] = "done" /\ hpc[q] = "done" /\ request[r] = request[q]) =>
              writer[r] = writer[q]

\* A request was answered while another handler, holding a different
\* number, was between its decoding and its answer.
C8_Witness ==
    \E r, q \in Requests :
        /\ r # q
        /\ hpc[r] = "done"
        /\ request[r] = [method |-> "POST", body |-> NumberBody(Vector14)]
        /\ writer[r].body = "{\"valid\":true}"
        /\ hpc[q] = "validate"
        /\ payload[q] = Vector15

\* Whether a JSON value supplies the number field.
SuppliesNumber(v) ==
    /\ v.type = "object"
    /\ \E k \in 1 .. Len(v.members) : IsNumberKey(v.members[k].key)

AnsweredValidForEmptyNumber(r) ==
    /\ payload[r] = <<>>
    /\ isValid[r]
    /\ writer[r].status = 200
    /\ writer[r].contentType = "application/json"
    /\ writer[r].body = "{\"valid\":true}"

\* C10 as stated: a POST whose body is well-formed JSON that does not
\* supply the number field is answered 200 with valid = true.
C10_AnyJSONWithoutNumberAccepted ==
    \A r \in Requests :
        (hpc[r] = "done" /\ request[r].method = "POST"
            /\ request[r].body.first = "value" /\ request[r].body.rest = "eof"
            /\ ~SuppliesNumber(request[r].body.value)) =>
            AnsweredValidForEmptyNumber(r)

\* C10, amended: a POST whose body is the JSON value null or a JSON object
\* that does not supply the number field is answered 200 with valid = true,
\* number being left empty.
C10_ObjectOrNullWithoutNumberAccepted ==
    \A r \in Requests :
        (hpc[r] = "done" /\ request[r].method = "POST"
            /\ request[r].body.first = "value" /\ request[r].body.rest = "eof"
            /\ request[r].body.value.type \in {"object", "null"}
            /\ ~SuppliesNumber(request[r].body.value)) =>
            AnsweredValidForEmptyNumber(r)

\* A POST of an object holding only another field was answered valid.
C10_Witness ==
    \E r \in Requests :
        /\ hpc[r] = "done"
        /\ request[r].method = "POST"
        /\ request[r].body =
              BodyOf(JObject(<<Member(KeyOther, JString(Vector15))>>))
        /\ AnsweredValidForEmptyNumber(r)

=============================================================================
